---- MODULE Spec2Model ----
(***************************************************************************)
(* Model of src/services/firebaseService.ts: the order subscription        *)
(* (listenForUserOrders) with its driver-details join, and the catalog     *)
(* read operations (fetchAppSettings, fetchCategories, fetchDishes,        *)
(* fetchBanners).                                                          *)
(*                                                                         *)
(* JavaScript values that may be absent or of several types are tagged     *)
(* records: [t |-> "undefined"], [t |-> "num", n |-> 5],                   *)
(* [t |-> "str", s |-> "ALL"], [t |-> "obj", ...].                         *)
(***************************************************************************)
EXTENDS Integers, Sequences, FiniteSets, TLC

VARIABLES uid, sub, handlers, delivered, call

vars == <<uid, sub, handlers, delivered, call>>

(* ------------------------------ bounds -------------------------------- *)

\* notifications of the order stream handled on one subscription
MaxNotifs == 2

\* order records in one snapshot of 'orders'
MaxOrders == 2

\* dish records in one snapshot of 'dishes'
MaxDishes == 2

(* --------------------------- JS value helpers -------------------------- *)

Undefined == [t |-> "undefined"]

Num(n) == [t |-> "num", n |-> n]

Str(s) == [t |-> "str", s |-> s]

SeqToSet(s) == {s[i] : i \in 1..Len(s)}

(* ======================= listenForUserOrders ========================== *)

Users == {"u1", "u2"}

\* the customer-facing status vocabulary entry that triggers the driver join
OnWay == "On Way"

\* ../constants CUSTOMER_STATUS_MAP: backend status code -> customer status
CUSTOMER_STATUS_MAP == [accepted |-> "Preparing", out_for_delivery |-> OnWay]

\* ../constants SIMULATED_DRIVER: the fixed placeholder driver record
SIMULATED_DRIVER ==
  [name |-> "Simulated Driver", mobile |-> "0000000000", imageUrl |-> "simulated.png"]

DefaultDriverImage == "https://cdn-icons-png.flaticon.com/512/4140/4140037.png"

\* backend content of delivery_partners/{id}; Undefined is a null snapshot
DeliveryPartners ==
  [d1 |-> [t |-> "obj", name |-> "Asha", mobile |-> "111", profileImageUrl |-> Str("asha.png")],
   d2 |-> [t |-> "obj", name |-> "Ravi", mobile |-> "222", profileImageUrl |-> Undefined],
   d3 |-> Undefined]

DriverIds == DOMAIN DeliveryPartners

\* order records of the backend, in key order; dboyId "" is an absent driver id
OrderPool ==
  << [k |-> "o1", userId |-> "u1", status |-> "out_for_delivery", dboyId |-> "d1", timestamp |-> 1],
     [k |-> "o2", userId |-> "u1", status |-> "out_for_delivery", dboyId |-> "d1", timestamp |-> 3],
     [k |-> "o3", userId |-> "u1", status |-> "delivered",        dboyId |-> "d2", timestamp |-> 2],
     [k |-> "o4", userId |-> "u2", status |-> "out_for_delivery", dboyId |-> "d2", timestamp |-> 2],
     [k |-> "o5", userId |-> "u1", status |-> "accepted",         dboyId |-> "",   timestamp |-> 3],
     [k |-> "o6", userId |-> "u2", status |-> "out_for_delivery", dboyId |-> "d3", timestamp |-> 1],
     [k |-> "o7", userId |-> "u2", status |-> "out_for_delivery", dboyId |-> "",   timestamp |-> 2] >>

RECURSIVE SelectPool(_, _)
\* the pool records whose index is in S, in key order (snapshot.forEach order)
SelectPool(S, i) ==
  IF i > Len(OrderPool) THEN <<>>
  ELSE (IF i \in S THEN <<OrderPool[i]>> ELSE <<>>) \o SelectPool(S, i + 1)

\* the snapshots of 'orders' a notification can carry
Snapshots ==
  {SelectPool(S, 1) : S \in {T \in SUBSET (1..Len(OrderPool)) : Cardinality(T) <= MaxOrders}}

customerStatusOf_NoFallback(status) ==
  IF status \in DOMAIN CUSTOMER_STATUS_MAP THEN CUSTOMER_STATUS_MAP[status] ELSE status

\* line 242: CUSTOMER_STATUS_MAP[val.status] || 'Processing'
customerStatusOf(status) ==
  LET v == IF status \in DOMAIN CUSTOMER_STATUS_MAP
           THEN Str(CUSTOMER_STATUS_MAP[status]) ELSE Undefined
  IN IF v.t = "str" /\ v.s # "" THEN v.s ELSE "Processing"

\* line 243: { k: childSnap.key, ...val, customerStatus }
makeOrder(val) ==
  [k |-> val.k, userId |-> val.userId, status |-> val.status, dboyId |-> val.dboyId,
   timestamp |-> val.timestamp, customerStatus |-> customerStatusOf(val.status),
   driverDetails |-> Undefined]

\* line 245 / 271: order.customerStatus === 'On Way' && order.dboyId
needsDriver(order) == order.customerStatus = OnWay /\ order.dboyId # ""

EmptyCache == [d \in DriverIds |-> Undefined]

\* lines 249-256: the .then handler of one lookup
lookupResolved(cache, id) ==
  LET dpData == DeliveryPartners[id]
  IN [cache EXCEPT ![id] =
        IF dpData.t = "obj"
        THEN [name |-> dpData.name, mobile |-> dpData.mobile,
              imageUrl |-> IF dpData.profileImageUrl.t = "str" /\ dpData.profileImageUrl.s # ""
                           THEN dpData.profileImageUrl.s ELSE DefaultDriverImage]
        ELSE SIMULATED_DRIVER]

lookupFailed_Dropped(cache, id) == cache

\* lines 257-260: the .catch handler of one lookup
lookupFailed(cache, id) == [cache EXCEPT ![id] = SIMULATED_DRIVER]

allSettled_NoAwait(h) == TRUE

\* line 268: await Promise.all(dpPromises) resumes once every promise settled
allSettled(h) == \A j \in 1..Len(h.dpPromises) : h.dpPromises[j].st = "settled"

\* lines 270-275: userOrders.map(...)
withDriverDetails(order, cache) ==
  IF needsDriver(order) THEN [order EXCEPT !.driverDetails = cache[order.dboyId]] ELSE order

compareOrders_Ascending(a, b) == a.timestamp - b.timestamp

\* line 277: (a, b) => b.timestamp - a.timestamp
compareOrders(a, b) == b.timestamp - a.timestamp

RECURSIVE insertSorted(_, _)
\* place x, which followed the elements of the sorted s in the input, keeping ties stable
insertSorted(x, s) ==
  IF s = <<>> THEN <<x>>
  ELSE IF compareOrders(s[Len(s)], x) <= 0 THEN Append(s, x)
  ELSE Append(insertSorted(x, SubSeq(s, 1, Len(s) - 1)), s[Len(s)])

RECURSIVE sortOrders(_)
\* line 277: Array.prototype.sort with the comparator (stable)
sortOrders(s) ==
  IF s = <<>> THEN <<>>
  ELSE insertSorted(s[Len(s)], sortOrders(SubSeq(s, 1, Len(s) - 1)))

\* lines 270-277: the list handed to the callback
resultList(h) ==
  sortOrders([i \in 1..Len(h.userOrders) |-> withDriverDetails(h.userOrders[i], h.dpCache)])

\* a handler is running synchronous code (lines 235-266)
Running == \E n \in 1..Len(handlers) : handlers[n].pc = "scan"

\* a continuation is queued as a microtask and runs before any further event
Resumable == \E n \in 1..Len(handlers) : handlers[n].pc = "await" /\ allSettled(handlers[n])

Idle == ~Running /\ ~Resumable

NoCall == [op |-> "none"]

\* the callback has not been invoked yet
NoDelivery ==
  [n |-> 0, prev |-> 0, list |-> <<>>, lookups |-> 0, pending |-> {}, sub |-> "active"]

\* the locals of a handler invocation that has returned
Returned ==
  [snap |-> <<>>, i |-> 1, pc |-> "done", userOrders |-> <<>>,
   dpPromises |-> <<>>, dpCache |-> [d \in DriverIds |-> Undefined]]

Init ==
  /\ uid \in Users
  /\ sub = "active"
  /\ handlers = <<>>
  /\ delivered = NoDelivery
  /\ call = NoCall

\* line 234: onValue fires the async handler with a snapshot (lines 235-237)
Notify(snap) ==
  /\ sub = "active"
  /\ Idle
  /\ Len(handlers) < MaxNotifs
  /\ handlers' = Append(handlers,
       [snap |-> snap, i |-> 1, pc |-> "scan", userOrders |-> <<>>,
        dpPromises |-> <<>>, dpCache |-> EmptyCache])
  /\ UNCHANGED <<uid, sub, delivered, call>>

\* lines 239-266: one iteration of snapshot.forEach
ScanStep(n) ==
  /\ n \in 1..Len(handlers)
  /\ handlers[n].pc = "scan"
  /\ handlers[n].i <= Len(handlers[n].snap)
  /\ LET h == handlers[n]
         val == h.snap[h.i]
         order == makeOrder(val)
         issue == val.userId = uid /\ needsDriver(order)
                  /\ h.dpCache[order.dboyId] = Undefined
     IN handlers' = [handlers EXCEPT ![n] =
          [h EXCEPT !.i = h.i + 1,
                    !.userOrders = IF val.userId = uid THEN Append(@, order) ELSE @,
                    !.dpPromises = IF issue THEN Append(@, [id |-> order.dboyId, st |-> "pending"])
                                   ELSE @]]
  /\ UNCHANGED <<uid, sub, delivered, call>>

\* line 268: the handler suspends on Promise.all; the snapshot is not used again
Await(n) ==
  /\ n \in 1..Len(handlers)
  /\ handlers[n].pc = "scan"
  /\ handlers[n].i > Len(handlers[n].snap)
  /\ handlers' = [handlers EXCEPT ![n] = [@ EXCEPT !.pc = "await", !.snap = <<>>, !.i = 1]]
  /\ UNCHANGED <<uid, sub, delivered, call>>

\* lines 248-260: a lookup settles; ok = the backend read succeeded
Settle(n, j, ok) ==
  /\ n \in 1..Len(handlers)
  /\ Idle
  /\ j \in 1..Len(handlers[n].dpPromises)
  /\ handlers[n].dpPromises[j].st = "pending"
  /\ LET h == handlers[n]
         id == h.dpPromises[j].id
     IN handlers' = [handlers EXCEPT ![n] =
          [h EXCEPT !.dpPromises[j].st = "settled",
                    !.dpCache = IF ok THEN lookupResolved(@, id) ELSE lookupFailed(@, id)]]
  /\ UNCHANGED <<uid, sub, delivered, call>>

\* lines 270-278: the continuation after the await; invokes the callback.
\* delivered is the latest invocation of the callback: n the notification it
\* answers, prev the notification the invocation before it answered.
Deliver(n) ==
  /\ n \in 1..Len(handlers)
  /\ ~Running
  /\ handlers[n].pc = "await"
  /\ allSettled(handlers[n])
  /\ delivered' =
       [n |-> n, prev |-> delivered.n, list |-> resultList(handlers[n]),
        lookups |-> Len(handlers[n].dpPromises),
        pending |-> {j \in 1..Len(handlers[n].dpPromises) : handlers[n].dpPromises[j].st = "pending"},
        sub |-> sub]
  /\ handlers' = [handlers EXCEPT ![n] = Returned]
  /\ UNCHANGED <<uid, sub, call>>

\* the Unsubscribe returned at line 234 is invoked by the caller
Unsubscribe ==
  /\ sub = "active"
  /\ Idle
  /\ sub' = "cancelled"
  /\ UNCHANGED <<uid, handlers, delivered, call>>

Next ==
  \/ \E snap \in Snapshots : Notify(snap)
  \/ \E n \in 1..Len(handlers) : ScanStep(n)
  \/ \E n \in 1..Len(handlers) : Await(n)
  \/ \E n \in 1..Len(handlers) :
       \E j \in 1..Len(handlers[n].dpPromises), ok \in BOOLEAN : Settle(n, j, ok)
  \/ \E n \in 1..Len(handlers) : Deliver(n)
  \/ Unsubscribe

Spec == Init /\ [][Next]_vars

(* ------------------- properties of listenForUserOrders ----------------- *)

\* the orders handed to the callback by its latest invocation
DeliveredOrders == SeqToSet(delivered.list)

\* the lookups a handler issued for driver id d
LookupsFor(h, d) == {j \in 1..Len(h.dpPromises) : h.dpPromises[j].id = d}

\* C1: within one notification, each distinct driver id triggers at most one
\* lookup of delivery_partners/{dboyId}, however many orders reference it.
C1_AtMostOneLookupPerDriver ==
  \A n \in 1..Len(handlers) : \A d \in DriverIds :
    Cardinality(LookupsFor(handlers[n], d)) <= 1

\* C2: every list handed to the callback is sorted by timestamp, newest
\* first: each delivered order's timestamp is >= its successor's.
C2_SortedDescending ==
  \A i \in 1..(Len(delivered.list) - 1) :
    delivered.list[i].timestamp >= delivered.list[i + 1].timestamp

\* a list was delivered in which the order stored first (o1, the oldest)
\* comes after the order stored second (o2, the newest)
C2_Witness ==
  /\ Len(delivered.list) >= 2
  /\ delivered.list[1].k = "o2" /\ delivered.list[1].timestamp = 3
  /\ delivered.list[Len(delivered.list)].k = "o1"

\* the profile the backend holds for a driver id, as the join exposes it
ProfileOf ==
  [d1 |-> [name |-> "Asha", mobile |-> "111", imageUrl |-> "asha.png"],
   d2 |-> [name |-> "Ravi", mobile |-> "222", imageUrl |-> DefaultDriverImage],
   d3 |-> SIMULATED_DRIVER]

\* C3: every delivered order that is 'On Way' and has a driver id carries
\* driverDetails equal to that driver's fetched profile or to SIMULATED_DRIVER,
\* never missing driverDetails, whether the lookup succeeded or failed.
C3_DriverDetailsPresent ==
  \A o \in DeliveredOrders :
    (o.customerStatus = OnWay /\ o.dboyId # "") =>
      o.driverDetails \in {ProfileOf[o.dboyId], SIMULATED_DRIVER}

\* an 'On Way' order of a driver with a stored profile was delivered with the
\* placeholder, its lookup having failed
C3_Witness ==
  \E o \in DeliveredOrders :
    o.dboyId = "d1" /\ o.customerStatus = OnWay /\ o.driverDetails = SIMULATED_DRIVER

\* C4: while a handler is still issuing lookups none of them has been awaited
\* or settled, and the callback runs only once every lookup of its
\* notification has settled.
C4_AwaitAllBeforeCallback ==
  /\ \A n \in 1..Len(handlers) :
       handlers[n].pc = "scan" =>
         \A j \in 1..Len(handlers[n].dpPromises) : handlers[n].dpPromises[j].st = "pending"
  /\ delivered.pending = {}

\* the callback ran for a notification that had issued two lookups
C4_Witness == delivered.n # 0 /\ delivered.lookups >= 2

\* C8: a delivered order whose status code is not in CUSTOMER_STATUS_MAP has
\* customerStatus "Processing"; a mapped code yields the table's value.
C8_StatusMapping ==
  \A o \in DeliveredOrders :
    /\ o.status \notin DOMAIN CUSTOMER_STATUS_MAP => o.customerStatus = "Processing"
    /\ o.status \in DOMAIN CUSTOMER_STATUS_MAP => o.customerStatus = CUSTOMER_STATUS_MAP[o.status]

\* an order with the unmapped status "delivered" and one with a mapped status
\* were delivered
C8_Witness ==
  /\ \E o \in DeliveredOrders : o.status = "delivered" /\ o.customerStatus = "Processing"
  /\ \E o \in DeliveredOrders : o.status = "accepted" /\ o.customerStatus = "Preparing"

\* C9: the callback is invoked in the order the notifications arrived: each
\* invocation answers a later notification than the invocation before it.
C9_DeliveredInArrivalOrder == delivered.n # 0 => delivered.prev < delivered.n

\* C10: the callback is never invoked after the unsubscribe handle was invoked.
C10_NoCallbackAfterUnsubscribe == delivered.sub = "active"

(* ========================= catalog read operations ===================== *)

Null == [t |-> "null"]

Bool(b) == [t |-> "bool", b |-> b]

\* JavaScript truthiness of a tagged value
Truthy(v) ==
  CASE v.t = "undefined" -> FALSE
    [] v.t = "null" -> FALSE
    [] v.t = "num" -> v.n # 0
    [] v.t = "str" -> v.s # ""
    [] v.t = "bool" -> v.b
    [] OTHER -> TRUE

\* a || b
OrElse(a, b) == IF Truthy(a) THEN a ELSE b

\* the decimal numerals that occur in stored records, and their values
DecimalValue == ("80" :> 80 @@ "200" :> 200 @@ "25" :> 25)

NumeralOf == (560001 :> "560001" @@ 560002 :> "560002" @@ 7 :> "7")

\* parseFloat of a number or of a decimal numeral
parseFloat(v) == IF v.t = "num" THEN v.n ELSE DecimalValue[v.s]

\* Object.prototype.toString of a string or a number
toString(v) == IF v.t = "str" THEN v.s ELSE NumeralOf[v.n]

DefaultDishImage == "https://picsum.photos/150/110"

\* ../constants PLACEHOLDER_CATEGORIES
PLACEHOLDER_CATEGORIES == << [id |-> "pc1", name |-> "Placeholder Category"] >>

\* ../constants PLACEHOLDER_SLIDER_IMAGES
PLACEHOLDER_SLIDER_IMAGES == << [downloadURL |-> "placeholder-banner.png", title |-> Str("Welcome")] >>

\* lines 115-118: the default settings
DEFAULT_SETTINGS ==
  [theme |-> [customerThemeColor |-> "#673AB7"],
   delivery |-> [deliveryFee |-> 10, freeDeliveryThreshold |-> 0]]

\* ../constants PLACEHOLDER_DISHES: its records are not under src/; the
\* candidates differ in whether the derived fields are already stored
PlaceholderDishSets ==
  { << [key |-> "p1", name |-> "Placeholder Dish", price |-> [final |-> 100, restaurantPrice |-> 90, adminFee |-> 10],
        discount |-> Num(10), images |-> <<>>, imageUrl |-> Str("p1.png"), customerPrice |-> Undefined],
       [key |-> "p2", name |-> "Placeholder Dish 2", price |-> [final |-> 50, restaurantPrice |-> 50, adminFee |-> 0],
        discount |-> Undefined, images |-> <<>>, imageUrl |-> Undefined, customerPrice |-> Undefined] >>,
    << [key |-> "p1", name |-> "Placeholder Dish", price |-> [final |-> 100, restaurantPrice |-> 90, adminFee |-> 10],
        discount |-> Num(10), images |-> <<"p1.png">>, imageUrl |-> Str("p1.png"), customerPrice |-> Num(9000)] >>,
    << [key |-> "p1", name |-> "Placeholder Dish", price |-> [final |-> 100, restaurantPrice |-> 90, adminFee |-> 10],
        discount |-> Num(10), images |-> <<"p1a.png", "p1b.png">>, imageUrl |-> Undefined, customerPrice |-> Num(10000)] >> }

\* stored records of 'dishes', in key order. Prices are whole currency units,
\* discounts whole percents.
DishPool ==
  << [key |-> "a", categoryId |-> Str("c1"), pincode |-> Str("ALL"), discount |-> Num(10),
      unit |-> Str("plate"), description |-> Str("d"), isInStock |-> Bool(FALSE),
      price |-> [t |-> "obj", final |-> Num(200), restaurantPrice |-> Num(180), adminFee |-> Num(20)],
      images |-> <<"a1.png">>, imageUrl |-> Undefined],
     [key |-> "b", categoryId |-> Num(7), pincode |-> Str("560002"), discount |-> Undefined,
      unit |-> Undefined, description |-> Undefined, isInStock |-> Undefined,
      price |-> [t |-> "obj", final |-> Str("80"), restaurantPrice |-> Num(70), adminFee |-> Num(10)],
      images |-> <<>>, imageUrl |-> Str("b.png")],
     [key |-> "c", categoryId |-> Undefined, pincode |-> Undefined, discount |-> Num(50),
      unit |-> Str("kg"), description |-> Str(""), isInStock |-> Bool(TRUE),
      price |-> Num(80), images |-> <<>>, imageUrl |-> Undefined],
     [key |-> "d", categoryId |-> Str("c2"), pincode |-> Num(560001), discount |-> Num(0),
      unit |-> Str("plate"), description |-> Str("d"), isInStock |-> Undefined,
      price |-> Str("25"), images |-> <<"d1.png", "d2.png">>, imageUrl |-> Str("d.png")],
     [key |-> "e", categoryId |-> Str("c1"), pincode |-> Str("560001"), discount |-> Num(100),
      unit |-> Str("plate"), description |-> Str("d"), isInStock |-> Bool(TRUE),
      price |-> Undefined, images |-> <<>>, imageUrl |-> Str("e.png")],
     [key |-> "f", categoryId |-> Str("c1"), pincode |-> Str(""), discount |-> Num(25),
      unit |-> Str("plate"), description |-> Str("d"), isInStock |-> Bool(TRUE),
      price |-> Num(0), images |-> <<>>, imageUrl |-> Undefined] >>

RECURSIVE SelectFrom(_, _, _)
\* the records of pool whose index is in S, in key order
SelectFrom(pool, S, i) ==
  IF i > Len(pool) THEN <<>>
  ELSE (IF i \in S THEN <<pool[i]>> ELSE <<>>) \o SelectFrom(pool, S, i + 1)

DishSnapshots ==
  {SelectFrom(DishPool, S, 1) : S \in {T \in SUBSET (1..Len(DishPool)) : Cardinality(T) <= MaxDishes}}

\* the caller's pincode argument: string | null
UserPincodes == {Null, Str(""), Str("560001"), Str("560002")}

\* line 143: (dish.pincode || 'ALL').toString()
normalizePincode(d) == toString(OrElse(d.pincode, Str("ALL")))

\* lines 149-151: a structured price is kept, a scalar becomes the structured form
normalizePrice(price) ==
  IF Truthy(price) /\ price.t = "obj" THEN price
  ELSE [t |-> "obj", final |-> Num(parseFloat(OrElse(price, Num(0)))),
        restaurantPrice |-> Num(parseFloat(OrElse(price, Num(0)))), adminFee |-> Num(0)]

customerPriceOf_NoDiscount(price, discount) == parseFloat(OrElse(price.final, Num(0))) * 100

\* lines 153-154: final * (1 - discount / 100), in hundredths of a currency unit
customerPriceOf(price, discount) ==
  parseFloat(OrElse(price.final, Num(0))) * (100 - discount.n)

\* lines 140-156: the normalisation of one stored dish
normalizeDish(d) ==
  LET discount == OrElse(d.discount, Num(0))
      price == normalizePrice(d.price)
  IN [key |-> d.key,
      categoryId |-> toString(OrElse(d.categoryId, Str("uncategorized"))),
      pincode |-> normalizePincode(d),
      discount |-> discount,
      unit |-> OrElse(d.unit, Str("Unit N/A")),
      description |-> OrElse(d.description, Str("No description available.")),
      isInStock |-> IF d.isInStock = Undefined THEN Bool(TRUE) ELSE d.isInStock,
      price |-> price,
      customerPrice |-> Num(customerPriceOf(price, discount)),
      images |-> IF Len(d.images) > 0 THEN d.images
                 ELSE << OrElse(d.imageUrl, Str(DefaultDishImage)).s >>,
      imageUrl |-> d.imageUrl]

skipDish_IgnoreAll(userPincode, dish) ==
  Truthy(userPincode) /\ dish.pincode # userPincode.s

\* line 158: the dish is not for the user's pincode
skipDish(userPincode, dish) ==
  Truthy(userPincode) /\ dish.pincode # "ALL" /\ dish.pincode # userPincode.s

RECURSIVE collectDishes(_, _)
\* lines 139-162: snapshot.forEach over the stored dishes
collectDishes(snap, userPincode) ==
  IF snap = <<>> THEN <<>>
  ELSE LET dish == normalizeDish(Head(snap))
       IN (IF skipDish(userPincode, dish) THEN <<>> ELSE <<dish>>)
          \o collectDishes(Tail(snap), userPincode)

dishesFallback_Raw(placeholder) == placeholder

\* lines 166-170: the placeholder dishes with their derived fields
dishesFallback(placeholder) ==
  [i \in 1..Len(placeholder) |->
     LET d == placeholder[i]
     IN [d EXCEPT !.customerPrice = Num(d.price.final * (100 - OrElse(d.discount, Num(0)).n)),
                  !.images = IF Len(d.images) > 0 THEN d.images
                             ELSE << OrElse(d.imageUrl, Str(DefaultDishImage)).s >>]]

\* stored records of 'categories'; id is a field the stored value may carry
CategoryPool ==
  << [key |-> "c1", id |-> Undefined, name |-> "Starters"],
     [key |-> "c2", id |-> Str("main"), name |-> "Mains"],
     [key |-> "c3", id |-> Undefined, name |-> "Desserts"] >>

CategorySnapshots == {SelectFrom(CategoryPool, S, 1) : S \in SUBSET (1..Len(CategoryPool))}

\* line 127: { id: c.key || '', ...c.val() }
makeCategory(c) == [id |-> IF c.id = Undefined THEN c.key ELSE c.id.s, name |-> c.name]

\* lines 125-128
categoriesRead(snap) ==
  LET categoriesData == [i \in 1..Len(snap) |-> makeCategory(snap[i])]
  IN IF Len(categoriesData) > 0 THEN categoriesData ELSE PLACEHOLDER_CATEGORIES

\* stored records of 'banners'
BannerPool ==
  << [imageUrl |-> Str("b1.png"), title |-> Str("Offer")],
     [imageUrl |-> Undefined, title |-> Str("Broken")],
     [imageUrl |-> Str("b3.png"), title |-> Undefined],
     [imageUrl |-> Str(""), title |-> Str("Empty")] >>

BannerSnapshots == {SelectFrom(BannerPool, S, 1) : S \in SUBSET (1..Len(BannerPool))}

RECURSIVE collectBanners(_)
\* lines 178-183
collectBanners(snap) ==
  IF snap = <<>> THEN <<>>
  ELSE (IF Truthy(Head(snap).imageUrl)
        THEN << [downloadURL |-> Head(snap).imageUrl.s, title |-> Head(snap).title] >>
        ELSE <<>>) \o collectBanners(Tail(snap))

\* lines 176-184
bannersRead(snap) ==
  LET sliderImages == collectBanners(snap)
  IN IF Len(sliderImages) > 0 THEN sliderImages ELSE PLACEHOLDER_SLIDER_IMAGES

\* lines 185-189
bannersCatch == PLACEHOLDER_SLIDER_IMAGES

\* the content of 'settings': null, or an object whose parts may be absent
SettingsSnapshots ==
  {Null} \cup
  { [t |-> "obj", theme |-> th, delivery |-> dl] :
      th \in {Undefined, [t |-> "obj", customerThemeColor |-> Undefined],
              [t |-> "obj", customerThemeColor |-> Str("#FF0000")]},
      dl \in {Undefined} \cup
             { [t |-> "obj", deliveryFee |-> fee, freeDeliveryThreshold |-> thr] :
                 fee \in {Undefined, Num(0), Num(25), Str("25")},
                 thr \in {Undefined, Num(200), Str("200")} } }

\* lines 99-111
settingsRead(snapVal) ==
  LET theme == IF Truthy(snapVal) THEN snapVal.theme ELSE Undefined
      delivery == IF Truthy(snapVal) THEN snapVal.delivery ELSE Undefined
      color == IF Truthy(theme) THEN theme.customerThemeColor ELSE Undefined
      fee == IF Truthy(delivery) THEN delivery.deliveryFee ELSE Undefined
      thr == IF Truthy(delivery) THEN delivery.freeDeliveryThreshold ELSE Undefined
  IN [theme |-> [customerThemeColor |-> OrElse(color, Str("#673AB7")).s],
      delivery |-> [deliveryFee |-> parseFloat(OrElse(fee, Num(10))),
                    freeDeliveryThreshold |-> parseFloat(OrElse(thr, Num(0)))]]

\* lines 135-172; failed = get(ref(db, 'dishes')) rejected
FetchDishes(snap, userPincode, failed, placeholder) ==
  /\ call' = [op |-> "fetchDishes", snap |-> snap, userPincode |-> userPincode,
              failed |-> failed, placeholder |-> placeholder,
              result |-> IF failed THEN dishesFallback(placeholder)
                         ELSE collectDishes(snap, userPincode)]
  /\ UNCHANGED <<uid, sub, handlers, delivered>>

\* lines 123-133
FetchCategories(snap, failed) ==
  /\ call' = [op |-> "fetchCategories", snap |-> snap, failed |-> failed,
              result |-> IF failed THEN PLACEHOLDER_CATEGORIES ELSE categoriesRead(snap)]
  /\ UNCHANGED <<uid, sub, handlers, delivered>>

\* lines 174-190
FetchBanners(snap, failed) ==
  /\ call' = [op |-> "fetchBanners", snap |-> snap, failed |-> failed,
              result |-> IF failed THEN bannersCatch ELSE bannersRead(snap)]
  /\ UNCHANGED <<uid, sub, handlers, delivered>>

\* lines 97-120
FetchAppSettings(snapVal, failed) ==
  /\ call' = [op |-> "fetchAppSettings", snap |-> snapVal, failed |-> failed,
              result |-> IF failed THEN DEFAULT_SETTINGS ELSE settingsRead(snapVal)]
  /\ UNCHANGED <<uid, sub, handlers, delivered>>

FetchNext ==
  \/ \E snap \in DishSnapshots, p \in UserPincodes, failed \in BOOLEAN, ph \in PlaceholderDishSets :
       FetchDishes(IF failed THEN <<>> ELSE snap, p, failed, ph)
  \/ \E snap \in CategorySnapshots, failed \in BOOLEAN :
       FetchCategories(IF failed THEN <<>> ELSE snap, failed)
  \/ \E snap \in BannerSnapshots, failed \in BOOLEAN :
       FetchBanners(IF failed THEN <<>> ELSE snap, failed)
  \/ \E snapVal \in SettingsSnapshots, failed \in BOOLEAN :
       FetchAppSettings(IF failed THEN Null ELSE snapVal, failed)

FetchSpec == Init /\ [][FetchNext]_vars

(* ------------------- properties of the read operations ----------------- *)

FailedCall(op) == call.op = op /\ call.failed

\* C5 as stated: on a failed backend read each of the four read operations
\* returns exactly its placeholder dataset.
C5_FailureReturnsPlaceholder ==
  /\ FailedCall("fetchCategories") => call.result = PLACEHOLDER_CATEGORIES
  /\ FailedCall("fetchBanners") => call.result = PLACEHOLDER_SLIDER_IMAGES
  /\ FailedCall("fetchAppSettings") =>
       call.result = [theme |-> [customerThemeColor |-> "#673AB7"],
                      delivery |-> [deliveryFee |-> 10, freeDeliveryThreshold |-> 0]]
  /\ FailedCall("fetchDishes") => call.result = call.placeholder

\* the discount of a record as a whole percent, a missing one counting as 0
DiscountOf(d) == IF d.discount.t = "num" THEN d.discount.n ELSE 0

\* C5 (amended): on a failed backend read fetchCategories, fetchBanners and
\* fetchAppSettings return exactly their placeholder or default value, and
\* fetchDishes returns the records of PLACEHOLDER_DISHES, each with
\* customerPrice set to price.final * (1 - discount/100) and images set to its
\* own non-empty images or else to the single imageUrl or default image, all
\* other fields unchanged.
C5_FailureReturnsDerivedPlaceholder ==
  /\ FailedCall("fetchCategories") => call.result = PLACEHOLDER_CATEGORIES
  /\ FailedCall("fetchBanners") => call.result = PLACEHOLDER_SLIDER_IMAGES
  /\ FailedCall("fetchAppSettings") =>
       call.result = [theme |-> [customerThemeColor |-> "#673AB7"],
                      delivery |-> [deliveryFee |-> 10, freeDeliveryThreshold |-> 0]]
  /\ FailedCall("fetchDishes") =>
       /\ Len(call.result) = Len(call.placeholder)
       /\ \A i \in 1..Len(call.result) :
            LET r == call.result[i]
                d == call.placeholder[i]
            IN /\ \A f \in (DOMAIN d) \ {"customerPrice", "images"} : r[f] = d[f]
               /\ r.customerPrice = Num(d.price.final * (100 - DiscountOf(d)))
               /\ r.images = IF d.images # <<>> THEN d.images
                             ELSE IF d.imageUrl.t = "str" THEN <<d.imageUrl.s>>
                             ELSE <<DefaultDishImage>>

\* fetchDishes failed and returned a placeholder record with a derived
\* customerPrice that the stored placeholder dataset does not hold
C5_Witness ==
  /\ FailedCall("fetchDishes")
  /\ call.result # call.placeholder
  /\ \E i \in 1..Len(call.result) : call.result[i].customerPrice = Num(9000)

\* the stored dish d is part of the returned list
Included(d) == \E j \in 1..Len(call.result) : call.result[j].key = d.key

\* the caller passed null or the empty string as pincode
NoPincodeSupplied(p) == p = Null \/ p = Str("")

\* C6: after a successful read a stored dish is returned iff the caller gave no
\* pincode, or the dish's normalized pincode is "ALL" (a missing pincode is
\* normalized to "ALL"), or it equals the caller's pincode; dish "ALL" is
\* returned for caller "560001" and dish "560002" is not.
C6_PincodeFilter ==
  (call.op = "fetchDishes" /\ ~call.failed) =>
    \A i \in 1..Len(call.snap) :
      LET d == call.snap[i]
          p == call.userPincode
      IN /\ Included(d) <=>
              \/ NoPincodeSupplied(p)
              \/ normalizePincode(d) = "ALL"
              \/ normalizePincode(d) = p.s
         /\ d.pincode = Undefined => normalizePincode(d) = "ALL"
         /\ (d.pincode = Str("ALL") /\ p = Str("560001")) => Included(d)
         /\ (d.pincode = Str("560002") /\ p = Str("560001")) => ~Included(d)

\* caller "560001" read dishes "ALL" and "560002" and got only the first
C6_Witness ==
  /\ call.op = "fetchDishes" /\ ~call.failed
  /\ call.userPincode = Str("560001")
  /\ \E i \in 1..Len(call.snap) : call.snap[i].pincode = Str("ALL") /\ Included(call.snap[i])
  /\ \E i \in 1..Len(call.snap) : call.snap[i].pincode = Str("560002") /\ ~Included(call.snap[i])

\* the numeric value of a stored scalar, a missing one counting as 0
ValueOf(v) ==
  CASE v.t = "num" -> v.n
    [] v.t = "str" /\ v.s \in DOMAIN DecimalValue -> DecimalValue[v.s]
    [] OTHER -> 0

\* C7: every returned dish has customerPrice = price.final * (1 - discount/100)
\* (in hundredths: final * (100 - discount)), a missing discount counting as 0;
\* a scalar stored price p is returned as {final: p, restaurantPrice: p,
\* adminFee: 0} and satisfies the same equation.
C7_CustomerPrice ==
  /\ (call.op = "fetchDishes" /\ ~call.failed) =>
       \A i \in 1..Len(call.snap) : \A j \in 1..Len(call.result) :
         LET d == call.snap[i]
             r == call.result[j]
         IN r.key = d.key =>
              IF d.price.t = "obj"
              THEN /\ r.price = d.price
                   /\ r.customerPrice = Num(ValueOf(d.price.final) * (100 - DiscountOf(d)))
              ELSE /\ r.price = [t |-> "obj", final |-> Num(ValueOf(d.price)),
                                 restaurantPrice |-> Num(ValueOf(d.price)), adminFee |-> Num(0)]
                   /\ r.customerPrice = Num(ValueOf(d.price) * (100 - DiscountOf(d)))
  /\ FailedCall("fetchDishes") =>
       \A j \in 1..Len(call.result) :
         call.result[j].customerPrice =
           Num(call.placeholder[j].price.final * (100 - DiscountOf(call.placeholder[j])))

\* a discounted dish with a structured price and a discounted dish with a
\* scalar price were returned
C7_Witness ==
  /\ call.op = "fetchDishes" /\ ~call.failed
  /\ \E j \in 1..Len(call.result) :
       call.result[j].key = "a" /\ call.result[j].customerPrice = Num(18000)
  /\ \E j \in 1..Len(call.result) :
       call.result[j].key = "c" /\ call.result[j].customerPrice = Num(4000)
       /\ call.result[j].price.final = Num(80)

====
